---- MODULE Spec2Model ----
(***************************************************************************)
(* A model of the fund-holdings query scripts:                             *)
(*   scripts/query_fund_holdings.py  get_stock_price_change,               *)
(*                                   calculate_fund_estimate,              *)
(*                                   get_fund_holdings,                    *)
(*                                   format_holdings_output                *)
(*   scripts/fund_holdings_main.py   extract_fund_code_and_top_n,          *)
(*                                   query_fund_holdings_main              *)
(*                                                                         *)
(* Text is a sequence of one-character strings, so that startswith, split, *)
(* replace, float() and the f-string formats are computed, not assumed.    *)
(* The characters are those of ASCII; float() takes \t, \n, \r, \f, the    *)
(* vertical tab and the space for white space.  A float is a binary64      *)
(* value with its exact arithmetic:                                        *)
(* float(), +, *, / and '.2f' round as Python rounds them.                 *)
(***************************************************************************)
EXTENDS Integers, Sequences, FiniteSets

----------------------------------------------------------------------------
(* Text helpers *)

Digits == <<"0", "1", "2", "3", "4", "5", "6", "7", "8", "9">>

IsDigit(c) == \E d \in 1..10 : Digits[d] = c

DigitVal(c) == (CHOOSE d \in 1..10 : Digits[d] = c) - 1

AllDigits(s) == \A k \in 1..Len(s) : IsDigit(s[k])

RECURSIVE DigitsVal(_)
DigitsVal(s) ==
    IF s = <<>> THEN 0
    ELSE 10 * DigitsVal(SubSeq(s, 1, Len(s) - 1)) + DigitVal(s[Len(s)])

RECURSIVE NatStr(_)
NatStr(n) ==
    IF n < 10 THEN <<Digits[n + 1]>>
    ELSE NatStr(n \div 10) \o <<Digits[(n % 10) + 1]>>

\* str.startswith(c) for a one-character prefix
StartsWith(s, c) == Len(s) >= 1 /\ s[1] = c

\* str.replace(c, '') : every occurrence of c removed
Remove(s, c) ==
    LET keep == {k \in 1..Len(s) : s[k] # c}
        nth(i) == CHOOSE k \in keep : Cardinality({j \in keep : j <= k}) = i
    IN  [i \in 1..Cardinality(keep) |-> s[nth(i)]]

\* str.split(sep) : the pieces between the separators, empty pieces kept
Split(s, sep) ==
    LET seps == {k \in 1..Len(s) : s[k] = sep}
        cut(i) == IF i = 0 THEN 0
                  ELSE IF i = Cardinality(seps) + 1 THEN Len(s) + 1
                  ELSE CHOOSE k \in seps : Cardinality({j \in seps : j < k}) = i - 1
    IN  [i \in 1..(Cardinality(seps) + 1) |->
            SubSeq(s, cut(i - 1) + 1, cut(i) - 1)]

\* re.search(r'"([^"]+)"', data) : the leftmost quote that is followed by at
\* least one non-quote character and then a quote; group(1) is what lies
\* between.
QuoteStarts(data) ==
    {k \in 1..Len(data) :
        /\ data[k] = "\""
        /\ k + 1 <= Len(data)
        /\ data[k + 1] # "\""
        /\ \E j \in (k + 2)..Len(data) : data[j] = "\""}

SearchQuoted(data) ==
    IF QuoteStarts(data) = {} THEN [found |-> FALSE, group |-> <<>>]
    ELSE LET k == CHOOSE a \in QuoteStarts(data) :
                      \A b \in QuoteStarts(data) : a <= b
             e == CHOOSE j \in (k + 2)..Len(data) :
                      data[j] = "\"" /\ \A m \in (k + 1)..(j - 1) : data[m] # "\""
         IN  [found |-> TRUE, group |-> SubSeq(data, k + 1, e - 1)]

----------------------------------------------------------------------------
(* Natural numbers of any size, for the arithmetic of Python's float (an   *)
(* IEEE-754 binary64): a number is the sequence of its limbs below Base,   *)
(* least significant first, with no zero limb at the top; 0 is <<>>.       *)
(*                                                                         *)
(* The operations of the numbers and of the floats call one another        *)
(* through Arith, which holds their bodies: Arith(name, args) is the       *)
(* operation name applied to args, and each operation below it is the      *)
(* name it is called by.                                                   *)

LimbBits == 15
Base == 32768

RECURSIVE Arith(_, _)

Limb(a, i) == IF i <= Len(a) THEN a[i] ELSE 0

BigTrim(a) ==
    LET nz == {i \in 1..Len(a) : a[i] # 0}
    IN  IF nz = {} THEN <<>>
        ELSE SubSeq(a, 1, CHOOSE i \in nz : \A j \in nz : j <= i)

\* the operations that are also needed on decimal limbs take the base

\* n < base * base as a number
BigOfNatIn(base, n) == BigTrim(<<n % base, n \div base>>)

\* a + b
BigAddIn(base, a, b) == Arith("BigAddIn", <<base, a, b>>)

\* a * k for 0 <= k < base
BigMulSmallIn(base, a, k) == Arith("BigMulSmallIn", <<base, a, k>>)

\* b * (limbs lo..hi of a, in their places)
BigMulRange(base, a, b, lo, hi) == Arith("BigMulRange", <<base, a, b, lo, hi>>)

\* a * b
BigMulIn(base, a, b) == Arith("BigMulIn", <<base, a, b>>)

\* v^k for one limb v
BigPowIn(base, v, k) == Arith("BigPowIn", <<base, v, k>>)

\* the number whose limbs lo..hi in base from are those of a, in base to
BigConvert(a, from, to, lo, hi) == Arith("BigConvert", <<a, from, to, lo, hi>>)

BigAdd(a, b) == BigAddIn(Base, a, b)
BigMulSmall(a, k) == BigMulSmallIn(Base, a, k)
BigMul(a, b) == BigMulIn(Base, a, b)
Pow5(k) == BigPowIn(Base, 5, k)

\* a - b for a >= b
BigSub(a, b) == Arith("BigSub", <<a, b>>)

\* a < b
BigLess(a, b) == Arith("BigLess", <<a, b>>)

\* a * 2^n and floor(a / 2^n)
BigShl(a, n) == Arith("BigShl", <<a, n>>)

BigShr(a, n) == Arith("BigShr", <<a, n>>)

\* the number of binary digits of a
BigBitLen(a) ==
    IF a = <<>> THEN 0
    ELSE LimbBits * (Len(a) - 1)
         + (CHOOSE k \in 1..LimbBits :
                2 ^ (k - 1) <= a[Len(a)] /\ a[Len(a)] < 2 ^ k)

\* binary digit i of a (digit 0 is the lowest)
BigBit(a, i) == (Limb(a, (i \div LimbBits) + 1) \div (2 ^ (i % LimbBits))) % 2

\* the binary digits of a below digit n are all 0
BigLowZero(a, n) ==
    /\ \A i \in 1..(n \div LimbBits) : Limb(a, i) = 0
    /\ Limb(a, (n \div LimbBits) + 1) % (2 ^ (n % LimbBits)) = 0

\* the number of zero binary digits at the low end of a # 0
BigTrailingZeros(a) ==
    LET w == CHOOSE i \in 1..Len(a) :
                 a[i] # 0 /\ \A j \in 1..(i - 1) : a[j] = 0
        b == CHOOSE k \in 0..(LimbBits - 1) :
                 a[w] % (2 ^ (k + 1)) # 0 /\ a[w] % (2 ^ k) = 0
    IN  LimbBits * (w - 1) + b

\* long division by d, whose top limb is at least Base / 2, from limb j
\* of the quotient downwards, for r < d * Base^(j + 1); the limbs
\* 1..(j + 1) of the quotient are returned
BigLongDiv(r, d, j) == Arith("BigLongDiv", <<r, d, j>>)

\* a = q * d + r for d > 0
BigDivMod(a, d) == Arith("BigDivMod", <<a, d>>)

\* the number a text of decimal digits denotes
BigOfDigits(s) ==
    BigConvert([i \in 1..Len(s) |-> DigitVal(s[Len(s) + 1 - i])],
               10, Base, 1, Len(s))

Pad4(n) ==
    <<Digits[(n \div 1000) + 1], Digits[((n \div 100) % 10) + 1],
      Digits[((n \div 10) % 10) + 1], Digits[(n % 10) + 1]>>

\* the decimal digits of a, at least width of them
BigStr(a, width) == Arith("BigStr", <<a, width>>)

----------------------------------------------------------------------------
(* Python's float.  A float is [kind, neg, mant, exp]: kind "nan", "inf"   *)
(* or "fin"; a finite one is (-1)^neg * mant * 2^exp with mant odd and     *)
(* below 2^53 (a zero has mant <<>> and exp 0 and keeps its sign), so that *)
(* equal floats are equal records.  Every operation rounds its exact       *)
(* result to the nearest float, ties to the even mantissa, as the hardware *)
(* does.                                                                   *)

Precision == 53
MinExp == 0 - 1022
MaxBits == 1024

Nan == [kind |-> "nan", neg |-> FALSE, mant |-> <<>>, exp |-> 0]
Inf(neg) == [kind |-> "inf", neg |-> neg, mant |-> <<>>, exp |-> 0]
Zero(neg) == [kind |-> "fin", neg |-> neg, mant |-> <<>>, exp |-> 0]

IsZero(x) == x.kind = "fin" /\ x.mant = <<>>

\* the float of the exact value m * 2^e: overflow gives an infinity
Finite(neg, m, e) == Arith("Finite", <<neg, m, e>>)

\* a with its lowest n binary digits rounded away, ties to even; sticky
\* says that the exact value lies above a
RoundShift(a, n, sticky) == Arith("RoundShift", <<a, n, sticky>>)

\* the float nearest to (q + f) * 2^x, where 0 <= f < 1 and sticky says
\* f > 0 (then q has at least Precision + 2 binary digits)
RoundToFloat(neg, q, sticky, x) == Arith("RoundToFloat", <<neg, q, sticky, x>>)

\* the float nearest to (n / d) * 2^x for n, d > 0
FloatOfRatio(neg, n, d, x) == Arith("FloatOfRatio", <<neg, n, d, x>>)

\* a + b
FloatAdd(a, b) == Arith("FloatAdd", <<a, b>>)

\* a * b
FloatMul(a, b) == Arith("FloatMul", <<a, b>>)

\* a / b for b # 0 (Python raises ZeroDivisionError for b == 0)
FloatDiv(a, b) == Arith("FloatDiv", <<a, b>>)

\* x >= 0 on a float: false for nan, true for both zeros
NonNegative(x) == x.kind # "nan" /\ (~x.neg \/ IsZero(x))

NanText == <<"n", "a", "n">>
InfText == <<"i", "n", "f">>
InfinityText == <<"i", "n", "f", "i", "n", "i", "t", "y">>

\* f"{x:.2f}": the exact value of x to the nearest hundredth, ties to
\* even; the sign of a negative zero and of a negative value that rounds
\* to zero is printed
Fixed2(x) == Arith("Fixed2", <<x>>)

\* float(s) strips white space, and takes an optional sign followed by
\* inf, infinity or nan in any case, or by a decimal literal: digits with
\* at most one point and at least one digit, then an optional exponent
\* e or E with an optional sign and at least one digit.  An underscore may
\* stand between two digits.  Anything else raises ValueError.
\* the vertical tab (character 11), for which TLA+ has no escape: the
\* string holds the character itself
VerticalTab == ""

Spaces == {" ", "\t", "\n", VerticalTab, "\f", "\r"}

Strip(s) ==
    LET ns == {k \in 1..Len(s) : s[k] \notin Spaces}
    IN  IF ns = {} THEN <<>>
        ELSE SubSeq(s, CHOOSE k \in ns : \A j \in ns : k <= j,
                       CHOOSE k \in ns : \A j \in ns : j <= k)

UpperCase == <<"A", "B", "C", "D", "E", "F", "G", "H", "I", "J", "K", "L", "M",
               "N", "O", "P", "Q", "R", "S", "T", "U", "V", "W", "X", "Y", "Z">>
LowerCase == <<"a", "b", "c", "d", "e", "f", "g", "h", "i", "j", "k", "l", "m",
               "n", "o", "p", "q", "r", "s", "t", "u", "v", "w", "x", "y", "z">>

Lower(s) ==
    [k \in 1..Len(s) |->
        IF \E i \in 1..26 : UpperCase[i] = s[k]
        THEN LowerCase[CHOOSE i \in 1..26 : UpperCase[i] = s[k]]
        ELSE s[k]]

UnderscoresOk(s) ==
    \A k \in 1..Len(s) :
        s[k] = "_" => /\ k > 1
                      /\ k < Len(s)
                      /\ IsDigit(s[k - 1])
                      /\ IsDigit(s[k + 1])

\* a text of digits without the zeros at its head, at its end
StripZeros(s) ==
    LET nz == {k \in 1..Len(s) : s[k] # "0"}
    IN  IF nz = {} THEN <<>>
        ELSE SubSeq(s, CHOOSE k \in nz : \A j \in nz : k <= j, Len(s))

StripEndZeros(s) ==
    LET nz == {k \in 1..Len(s) : s[k] # "0"}
    IN  IF nz = {} THEN <<>>
        ELSE SubSeq(s, 1, CHOOSE k \in nz : \A j \in nz : j <= k)

ParseFail == [ok |-> FALSE, value |-> Nan]

\* the exponent digits as a number; past MaxExponent the result is an
\* infinity or a zero whatever the digits are
MaxExponent == 1000000

ExponentVal(s) ==
    IF Len(StripZeros(s)) > 6 THEN MaxExponent ELSE DigitsVal(StripZeros(s))

\* the float nearest to digits * 10^x, the digits without zeros at either
\* end
FloatOfDecimal(neg, digits, x) == Arith("FloatOfDecimal", <<neg, digits, x>>)

\* the decimal literal u, in lower case and without sign or underscores
ParseDecimal(neg, u) == Arith("ParseDecimal", <<neg, u>>)

\* the literal after the sign
ParseUnsigned(neg, u) == Arith("ParseUnsigned", <<neg, u>>)

\* float(s)
ParseFloat(s) == Arith("ParseFloat", <<s>>)

Arith(name, args) ==
    CASE name = "BigAddIn" ->
           \* a limb receives a carry when a lower limb overflows and every
           \* limb between the two is full
           LET base == args[1]
               a    == args[2]
               b    == args[3]
               n    == (IF Len(a) > Len(b) THEN Len(a) ELSE Len(b)) + 1
               s    == [i \in 1..n |-> Limb(a, i) + Limb(b, i)]
               carry(i) == IF \E j \in 1..(i - 1) :
                                  /\ s[j] >= base
                                  /\ \A k \in (j + 1)..(i - 1) : s[k] = base - 1
                           THEN 1 ELSE 0
           IN  BigTrim([i \in 1..n |-> (s[i] + carry(i)) % base])
      [] name = "BigSub" ->
           \* a limb lends when a lower limb falls short and every limb
           \* between the two is level
           LET a == args[1]
               b == args[2]
               d == [i \in 1..Len(a) |-> a[i] - Limb(b, i)]
               borrow(i) == IF \E j \in 1..(i - 1) :
                                   /\ d[j] < 0
                                   /\ \A k \in (j + 1)..(i - 1) : d[k] = 0
                            THEN 1 ELSE 0
           IN  BigTrim([i \in 1..Len(a) |-> (d[i] - borrow(i) + Base) % Base])
      [] name = "BigLess" ->
           LET a == args[1]
               b == args[2]
           IN  IF Len(a) # Len(b) THEN Len(a) < Len(b)
               ELSE \E i \in 1..Len(a) :
                        /\ a[i] < b[i]
                        /\ \A j \in (i + 1)..Len(a) : a[j] = b[j]
      [] name = "BigShl" ->
           LET a  == args[1]
               n  == args[2]
               b  == n % LimbBits
               hi == 2 ^ (LimbBits - b)
           IN  IF a = <<>> THEN <<>>
               ELSE BigTrim([i \in 1..(n \div LimbBits) |-> 0]
                            \o [i \in 1..(Len(a) + 1) |->
                                   (Limb(a, i) % hi) * (2 ^ b)
                                   + (IF i > 1 THEN a[i - 1] \div hi ELSE 0)])
      [] name = "BigShr" ->
           LET a == args[1]
               n == args[2]
               b == n % LimbBits
               t == SubSeq(a, (n \div LimbBits) + 1, Len(a))
           IN  IF n \div LimbBits >= Len(a) THEN <<>>
               ELSE BigTrim([i \in 1..Len(t) |->
                               (t[i] \div (2 ^ b))
                               + (Limb(t, i + 1) % (2 ^ b)) * (2 ^ (LimbBits - b))])
      [] name = "BigMulSmallIn" ->
           LET base == args[1]
               a    == args[2]
               k    == args[3]
           IN  BigAddIn(base,
                        [i \in 1..Len(a) |-> (a[i] * k) % base],
                        <<0>> \o [i \in 1..Len(a) |-> (a[i] * k) \div base])
      [] name = "BigMulRange" ->
           LET base == args[1]
               a    == args[2]
               b    == args[3]
               lo   == args[4]
               hi   == args[5]
           IN  IF lo = hi
               THEN BigTrim([i \in 1..(lo - 1) |-> 0]
                            \o BigMulSmallIn(base, b, a[lo]))
               ELSE BigAddIn(base,
                             BigMulRange(base, a, b, lo, (lo + hi) \div 2),
                             BigMulRange(base, a, b, ((lo + hi) \div 2) + 1, hi))
      [] name = "BigMulIn" ->
           LET base == args[1]
               a    == args[2]
               b    == args[3]
           IN  IF a = <<>> \/ b = <<>> THEN <<>>
               ELSE BigMulRange(base, a, b, 1, Len(a))
      [] name = "BigPowIn" ->
           LET base == args[1]
               v    == args[2]
               k    == args[3]
               h    == BigPowIn(base, v, k \div 2)
               sq   == BigMulIn(base, h, h)
           IN  IF k = 0 THEN <<1>>
               ELSE IF k % 2 = 0 THEN sq
               ELSE BigMulIn(base, sq, BigOfNatIn(base, v))
      [] name = "BigConvert" ->
           LET a    == args[1]
               from == args[2]
               to   == args[3]
               lo   == args[4]
               hi   == args[5]
               mid  == (lo + hi) \div 2
           IN  IF lo > hi THEN <<>>
               ELSE IF lo = hi THEN BigOfNatIn(to, a[lo])
               ELSE BigAddIn(to,
                             BigConvert(a, from, to, lo, mid),
                             BigMulIn(to, BigConvert(a, from, to, mid + 1, hi),
                                      BigPowIn(to, from, mid - lo + 1)))
      [] name = "BigLongDiv" ->
           \* the quotient limb estimated from the top two limbs of r and
           \* the top limb of d is at most two too large
           LET r    == args[1]
               d    == args[2]
               j    == args[3]
               n    == Len(d)
               top  == Limb(r, j + n + 1) * Base + Limb(r, j + n)
               qhat == IF top \div d[n] < Base THEN top \div d[n] ELSE Base - 1
               dj   == [i \in 1..j |-> 0] \o d
               fits(c) == ~BigLess(r, BigMulSmall(dj, c))
               c    == IF fits(qhat) THEN qhat
                       ELSE IF fits(qhat - 1) THEN qhat - 1
                       ELSE qhat - 2
               rest == BigLongDiv(BigSub(r, BigMulSmall(dj, c)), d, j - 1)
           IN  IF j < 0 THEN [q |-> <<>>, r |-> r]
               ELSE [q |-> Append(rest.q, c), r |-> rest.r]
      [] name = "BigDivMod" ->
           LET a  == args[1]
               d  == args[2]
               sh == LimbBits - (BigBitLen(d) - LimbBits * (Len(d) - 1))
               as == BigShl(a, sh)
               x  == BigLongDiv(as, BigShl(d, sh), Len(as) - Len(d))
           IN  [q |-> BigTrim(x.q), r |-> BigShr(x.r, sh)]
      [] name = "BigStr" ->
           LET a     == args[1]
               width == args[2]
               dec   == BigConvert(a, Base, 10000, 1, Len(a))
               n     == Len(dec)
               all   == [p \in 1..(4 * n) |->
                            Pad4(dec[n - ((p - 1) \div 4)])[((p - 1) % 4) + 1]]
               nz    == {p \in 1..(4 * n) : all[p] # "0"}
               sig   == IF nz = {} THEN 0
                        ELSE 4 * n + 1 - (CHOOSE p \in nz : \A j \in nz : p <= j)
           IN  [i \in 1..(width - sig) |-> "0"]
               \o SubSeq(all, 4 * n + 1 - sig, 4 * n)
      [] name = "Finite" ->
           LET neg == args[1]
               m   == args[2]
               e   == args[3]
               tz  == BigTrailingZeros(m)
           IN  IF m = <<>> THEN Zero(neg)
               ELSE IF BigBitLen(m) + e > MaxBits THEN Inf(neg)
               ELSE [kind |-> "fin", neg |-> neg,
                     mant |-> BigShr(m, tz), exp |-> e + tz]
      [] name = "RoundShift" ->
           LET a      == args[1]
               n      == args[2]
               sticky == args[3]
               kept   == BigShr(a, n)
               up     == /\ BigBit(a, n - 1) = 1
                         /\ \/ sticky
                            \/ ~BigLowZero(a, n - 1)
                            \/ BigBit(a, n) = 1
           IN  IF up THEN BigAdd(kept, <<1>>) ELSE kept
      [] name = "RoundToFloat" ->
           \* below 2^MinExp the floats are 2^(MinExp - Precision + 1) apart
           LET neg    == args[1]
               q      == args[2]
               sticky == args[3]
               x      == args[4]
               top    == BigBitLen(q) - 1 + x
               keep   == IF top >= MinExp THEN Precision
                         ELSE top - MinExp + Precision
               drop   == BigBitLen(q) - keep
           IN  IF q = <<>> THEN Zero(neg)
               ELSE IF drop <= 0 THEN Finite(neg, q, x)
               ELSE Finite(neg, RoundShift(q, drop, sticky), x + drop)
      [] name = "FloatOfRatio" ->
           LET neg == args[1]
               n   == args[2]
               d   == args[3]
               x   == args[4]
               s   == Precision + 2 - (BigBitLen(n) - BigBitLen(d))
               qr  == BigDivMod(BigShl(n, IF s >= 0 THEN s ELSE 0),
                                BigShl(d, IF s >= 0 THEN 0 ELSE 0 - s))
           IN  RoundToFloat(neg, qr.q, qr.r # <<>>, x - s)
      [] name = "FloatAdd" ->
           LET a  == args[1]
               b  == args[2]
               e  == IF a.exp < b.exp THEN a.exp ELSE b.exp
               am == BigShl(a.mant, a.exp - e)
               bm == BigShl(b.mant, b.exp - e)
           IN  IF a.kind = "nan" \/ b.kind = "nan" THEN Nan
               ELSE IF a.kind = "inf" /\ b.kind = "inf"
               THEN (IF a.neg = b.neg THEN a ELSE Nan)
               ELSE IF a.kind = "inf" THEN a
               ELSE IF b.kind = "inf" THEN b
               ELSE IF IsZero(a) /\ IsZero(b) THEN Zero(a.neg /\ b.neg)
               ELSE IF IsZero(a) THEN b
               ELSE IF IsZero(b) THEN a
               ELSE IF a.neg = b.neg
               THEN RoundToFloat(a.neg, BigAdd(am, bm), FALSE, e)
               ELSE IF am = bm THEN Zero(FALSE)
               ELSE IF BigLess(am, bm)
               THEN RoundToFloat(b.neg, BigSub(bm, am), FALSE, e)
               ELSE RoundToFloat(a.neg, BigSub(am, bm), FALSE, e)
      [] name = "FloatMul" ->
           LET a == args[1]
               b == args[2]
           IN  IF a.kind = "nan" \/ b.kind = "nan" THEN Nan
               ELSE IF a.kind = "inf" \/ b.kind = "inf"
               THEN (IF IsZero(a) \/ IsZero(b) THEN Nan ELSE Inf(a.neg # b.neg))
               ELSE IF IsZero(a) \/ IsZero(b) THEN Zero(a.neg # b.neg)
               ELSE RoundToFloat(a.neg # b.neg, BigMul(a.mant, b.mant), FALSE,
                                 a.exp + b.exp)
      [] name = "FloatDiv" ->
           LET a == args[1]
               b == args[2]
           IN  IF IsZero(b) THEN [Nan EXCEPT !.kind = "ZeroDivisionError"]
               ELSE IF a.kind = "nan" \/ b.kind = "nan" THEN Nan
               ELSE IF a.kind = "inf"
               THEN (IF b.kind = "inf" THEN Nan ELSE Inf(a.neg # b.neg))
               ELSE IF b.kind = "inf" \/ IsZero(a) THEN Zero(a.neg # b.neg)
               ELSE FloatOfRatio(a.neg # b.neg, a.mant, b.mant, a.exp - b.exp)
      [] name = "Fixed2" ->
           LET x  == args[1]
               t  == BigMulSmall(x.mant, 100)
               h  == IF x.exp >= 0 THEN BigShl(t, x.exp)
                     ELSE RoundShift(t, 0 - x.exp, FALSE)
               ds == BigStr(h, 3)
           IN  IF x.kind = "nan" THEN NanText
               ELSE (IF x.neg THEN <<"-">> ELSE <<>>)
                    \o (IF x.kind = "inf" THEN InfText
                        ELSE SubSeq(ds, 1, Len(ds) - 2) \o <<".">>
                             \o SubSeq(ds, Len(ds) - 1, Len(ds)))
      [] name = "FloatOfDecimal" ->
           \* no float lies at or above 10^309, and below 10^-324 the
           \* nearest one is zero
           LET neg    == args[1]
               digits == args[2]
               x      == args[3]
           IN  IF digits = <<>> THEN Zero(neg)
               ELSE IF Len(digits) + x > 309 THEN Inf(neg)
               ELSE IF Len(digits) + x < 0 - 323 THEN Zero(neg)
               ELSE IF x >= 0
               THEN RoundToFloat(neg, BigMul(BigOfDigits(digits), Pow5(x)),
                                 FALSE, x)
               ELSE FloatOfRatio(neg, BigOfDigits(digits), Pow5(0 - x), x)
      [] name = "ParseDecimal" ->
           LET neg  == args[1]
               u    == args[2]
               es   == {k \in 1..Len(u) : u[k] = "e"}
               ep   == IF es = {} THEN Len(u) + 1
                       ELSE CHOOSE k \in es : \A j \in es : k <= j
               mant == SubSeq(u, 1, ep - 1)
               expo == SubSeq(u, ep + 1, Len(u))
               eneg == StartsWith(expo, "-")
               edig == IF StartsWith(expo, "-") \/ StartsWith(expo, "+")
                       THEN Tail(expo) ELSE expo
               dots == {k \in 1..Len(mant) : mant[k] = "."}
               d    == IF dots = {} THEN Len(mant) + 1
                       ELSE CHOOSE k \in dots : \A j \in dots : k <= j
               ip   == SubSeq(mant, 1, d - 1)
               fp   == SubSeq(mant, d + 1, Len(mant))
               sig  == StripZeros(ip \o fp)
               ev   == IF es = {} THEN 0
                       ELSE IF eneg THEN 0 - ExponentVal(edig)
                       ELSE ExponentVal(edig)
           IN  IF /\ AllDigits(ip)
                  /\ AllDigits(fp)
                  /\ Len(ip) + Len(fp) >= 1
                  /\ es # {} => (edig # <<>> /\ AllDigits(edig))
               THEN [ok    |-> TRUE,
                     value |-> FloatOfDecimal(neg, StripEndZeros(sig),
                                   ev - Len(fp)
                                   + (Len(sig) - Len(StripEndZeros(sig))))]
               ELSE ParseFail
      [] name = "ParseUnsigned" ->
           LET neg == args[1]
               u   == args[2]
           IN  IF Lower(u) = NanText THEN [ok |-> TRUE, value |-> Nan]
               ELSE IF Lower(u) \in {InfText, InfinityText}
               THEN [ok |-> TRUE, value |-> Inf(neg)]
               ELSE ParseDecimal(neg, Lower(u))
      [] name = "ParseFloat" ->
           LET s == args[1]
               t == Strip(s)
               u == Remove(t, "_")
           IN  IF ~UnderscoresOk(t) THEN ParseFail
               ELSE IF StartsWith(u, "-") THEN ParseUnsigned(TRUE, Tail(u))
               ELSE IF StartsWith(u, "+") THEN ParseUnsigned(FALSE, Tail(u))
               ELSE ParseUnsigned(FALSE, u)

----------------------------------------------------------------------------
(* get_stock_price_change *)

Sentinel == <<"-", "-">>

\* the market prefix chosen from the first character; "none" is the early
\* return "--"
MarketPrefix_Default(stock_code) ==
    IF StartsWith(stock_code, "6") THEN "sh" ELSE "sz"

MarketPrefix(stock_code) ==
    IF StartsWith(stock_code, "6") THEN "sh"
    ELSE IF StartsWith(stock_code, "0") \/ StartsWith(stock_code, "3") THEN "sz"
    ELSE "none"

\* symbol = f"s_{market_prefix}{stock_code}"
Symbol(stock_code) ==
    <<"s", "_">>
    \o (IF MarketPrefix(stock_code) = "sh" THEN <<"s", "h">> ELSE <<"s", "z">>)
    \o stock_code

\* the part of get_stock_price_change after requests.get returned or raised:
\* reply.kind is "http" (a response with status and text), "timeout" or
\* "connerr" (requests.get raised; the outer except returns "--")
ParseQuote(reply) ==
    IF reply.kind # "http" THEN Sentinel
    ELSE IF reply.status # 200 THEN Sentinel
    ELSE LET match == SearchQuoted(reply.text) IN
         IF ~match.found THEN Sentinel
         ELSE LET values == Split(match.group, "~") IN
              IF Len(values) < 6 THEN Sentinel
              ELSE LET change_percent == ParseFloat(values[6]) IN
                   IF ~change_percent.ok THEN Sentinel
                   ELSE IF NonNegative(change_percent.value)
                        THEN <<"+">> \o Fixed2(change_percent.value) \o <<"%">>
                        ELSE Fixed2(change_percent.value) \o <<"%">>

\* the whole call, given what the quote endpoint answers for this symbol
get_stock_price_change(stock_code, reply) ==
    IF MarketPrefix(stock_code) = "none" THEN Sentinel ELSE ParseQuote(reply)

----------------------------------------------------------------------------
(* calculate_fund_estimate *)

\* the fixed message of the total_weight == 0 branch
NoEstimate == <<"cannot predict: no valid change data">>

\* float(change_str.replace('+', '').replace('%', ''))
ParseChange(change_str) == ParseFloat(Remove(Remove(change_str, "+"), "%"))

\* one pass of the for loop over acc = [total_weight, weighted_change]
EstimateStep_WeightFirst(acc, holding) ==
    LET change_value == ParseChange(holding.change_percent) IN
    IF holding.change_percent = Sentinel \/ ~change_value.ok
    THEN [acc EXCEPT !.total_weight = FloatAdd(@, holding.proportion)]
    ELSE [total_weight    |-> FloatAdd(acc.total_weight, holding.proportion),
          weighted_change |-> FloatAdd(acc.weighted_change,
                                       FloatMul(holding.proportion,
                                                change_value.value))]

EstimateStep_ZeroForBad(acc, holding) ==
    LET change_value == ParseChange(holding.change_percent) IN
    IF holding.change_percent = Sentinel THEN acc
    ELSE IF ~change_value.ok
    THEN [acc EXCEPT !.total_weight = FloatAdd(@, holding.proportion)]
    ELSE [total_weight    |-> FloatAdd(acc.total_weight, holding.proportion),
          weighted_change |-> FloatAdd(acc.weighted_change,
                                       FloatMul(holding.proportion,
                                                change_value.value))]

EstimateStep(acc, holding) ==
    IF holding.change_percent = Sentinel THEN acc
    ELSE LET change_value == ParseChange(holding.change_percent) IN
         IF ~change_value.ok THEN acc
         ELSE [total_weight    |-> FloatAdd(acc.total_weight, holding.proportion),
               weighted_change |-> FloatAdd(acc.weighted_change,
                                            FloatMul(holding.proportion,
                                                     change_value.value))]

RECURSIVE Accumulate(_, _)
Accumulate(acc, holdings) ==
    IF holdings = <<>> THEN acc
    ELSE Accumulate(EstimateStep(acc, Head(holdings)), Tail(holdings))

\* weighted_change / total_weight, then the signed '.2f' format
FormatEstimate(acc) ==
    LET estimated_change == FloatDiv(acc.weighted_change, acc.total_weight)
    IN  IF NonNegative(estimated_change)
        THEN <<"+">> \o Fixed2(estimated_change) \o <<"%">>
        ELSE Fixed2(estimated_change) \o <<"%">>

\* total_weight = 0.0, weighted_change = 0.0, the loop, the test
\* total_weight == 0 (true of either zero, false of nan), the division
calculate_fund_estimate(holdings) ==
    LET acc == Accumulate([total_weight |-> Zero(FALSE),
                           weighted_change |-> Zero(FALSE)], holdings)
    IN  IF IsZero(acc.total_weight) THEN NoEstimate ELSE FormatEstimate(acc)

----------------------------------------------------------------------------
(* get_fund_holdings, format_holdings_output, query_fund_holdings_main *)

MaxTopN == 20
MinTopN == 1
DefaultTopN == 20

Min(a, b) == IF a < b THEN a ELSE b
Max(a, b) == IF a > b THEN a ELSE b

\* top_n = min(top_n, 20) at the head of get_fund_holdings
Cap_None(top_n) == top_n

Cap(top_n) == Min(top_n, MaxTopN)

\* extract_fund_code_and_top_n: zh and en are the numbers matched by the
\* Chinese and the English pattern (-1: no match; \d+ never gives a
\* negative number); the English match overrides the Chinese one
ExtractTopN(zh, en) ==
    LET n0 == DefaultTopN
        n1 == IF zh >= 0 THEN zh ELSE n0
        n2 == IF en >= 0 THEN en ELSE n1
    IN  Max(Min(n2, MaxTopN), MinTopN)

\* matches[:top_n], with Python's meaning of a negative stop
Slice(matches, n) ==
    IF n >= 0 THEN SubSeq(matches, 1, Min(n, Len(matches)))
    ELSE SubSeq(matches, 1, Max(Len(matches) + n, 0))

\* requests.get returned and response.status_code == 200; a timeout or a
\* connection error raises inside the try and ends in "return None"
Fetched_AnyStatus(reply) == reply.kind = "http"

Fetched(reply) == reply.kind = "http" /\ reply.status = 200

UnknownFund == <<"unknown fund">>
UnknownDate == <<"unknown">>

None == [none |-> TRUE, name |-> <<>>, code |-> <<>>, report_date |-> <<>>,
         holdings |-> <<>>]

\* the dict returned at the end of get_fund_holdings
Report(reply, code, hs) ==
    [none        |-> FALSE,
     name        |-> IF reply.name # <<>> THEN reply.name ELSE UnknownFund,
     code        |-> code,
     report_date |-> IF reply.date # <<>> THEN reply.date ELSE UnknownDate,
     holdings    |-> hs]

\* the float a successful float(s) yields
FloatOf(s) == ParseFloat(s).value

\* holdings.append({...}) for one matched row and its fetched change
AddHolding_Front(hs, row, change) ==
    <<[stock_code     |-> row.stock_code,
       stock_name     |-> row.stock_name,
       proportion     |-> FloatOf(row.proportion),
       change_percent |-> change]>> \o hs

AddHolding(hs, row, change) ==
    Append(hs, [stock_code     |-> row.stock_code,
                stock_name     |-> row.stock_name,
                proportion     |-> FloatOf(row.proportion),
                change_percent |-> change])

Advisory == <<"no holdings found: check the fund code; the fund may have no holdings (e.g. a money-market fund)">>
Usage == <<"please give a 6-digit fund code">>

\* one line of the table: rank, code, name, proportion to two decimals,
\* change (the fixed-width padding is left out)
TableRow(k, holding) ==
    <<k, holding.stock_code, holding.stock_name, Fixed2(holding.proportion),
      holding.change_percent>>

format_holdings_output(res) ==
    IF res.none
    THEN [kind |-> "advisory", text |-> Advisory, name |-> <<>>, code |-> <<>>,
          report_date |-> <<>>, estimate |-> <<>>, table |-> <<>>, shown |-> 0]
    ELSE [kind        |-> "report",
          text        |-> <<>>,
          name        |-> res.name,
          code        |-> res.code,
          report_date |-> res.report_date,
          estimate    |-> calculate_fund_estimate(res.holdings),
          table       |-> [k \in 1..Len(res.holdings) |-> TableRow(k, res.holdings[k])],
          shown       |-> Len(res.holdings)]

NoOutput == [kind |-> "none", text |-> <<>>, name |-> <<>>, code |-> <<>>,
             report_date |-> <<>>, estimate |-> <<>>, table |-> <<>>, shown |-> 0]

UsageOutput == [NoOutput EXCEPT !.kind = "usage", !.text = Usage]

----------------------------------------------------------------------------
(* Inputs *)

\* bounds of the inputs drawn below
SmallN == 3
OverCap == 1
MaxHoldings == 3

Code603259 == <<"6", "0", "3", "2", "5", "9">>
Code688981 == <<"6", "8", "8", "9", "8", "1">>
Code000858 == <<"0", "0", "0", "8", "5", "8">>
Code300750 == <<"3", "0", "0", "7", "5", "0">>
Code900901 == <<"9", "0", "0", "9", "0", "1">>
Code830799 == <<"8", "3", "0", "7", "9", "9">>

\* stock codes handed to get_stock_price_change on its own
StockCodes ==
    {Code603259, Code688981, Code000858, Code300750, Code900901, Code830799,
     <<"0">>, <<"3">>, <<"9">>, <<>>, <<"s", "h", "6">>}

\* a quote body  v="1~N~6~9~-2~<field>~X";  whose field index 5 is given
QuoteText(field) ==
    <<"v", "=", "\"", "1", "~", "N", "~", "6", "~", "9", "~", "-", "2", "~">>
    \o field \o <<"~", "X", "\"", ";">>

QuoteFields ==
    {<<"-", "2", ".", "1", "0">>,
     <<"2", ".", "3", "5">>,
     <<"0", ".", "0", "0">>,
     <<"-", "0", ".", "0", "0">>,
     <<"-", "0">>,
     <<"n", "a", "n">>,
     <<"a", "b", "c">>,
     <<>>,
     <<"1", ".", "2", ".", "3">>,
     <<"5">>,
     <<".", "5">>,
     <<"+", "3">>,
     <<"-", "4", ".", "0", "0">>,
     <<"2", ".", "0", "0">>,
     <<"1", "0", ".", "5">>,
     <<"-">>,
     <<"2", ".", "3", "4", "5">>,
     <<"-", "2", ".", "1", "0", "5">>,
     <<"1", "e", "2">>,
     <<"i", "n", "f">>,
     <<" ", "2", ".", "3", "5">>,
     <<"N", "a", "N">>,
     <<"1", "_", "0">>,
     <<"2", ".", "3", "5", VerticalTab>>}

QuoteTexts ==
    {QuoteText(f) : f \in QuoteFields}
    \cup {<<"e", "r", "r", "o", "r">>,
          <<"v", "=", "\"", "\"", ";">>,
          <<"v", "=", "\"", "1", "~", "N", "~", "6", "\"", ";">>,
          <<"v", "=", "\"", "1", "~", "N", "~", "6", "~", "9", "~", "-", "2", "\"", ";">>,
          <<"v", "=", "\"", "\"", "1", "~", "N", "~", "6", "~", "9", "~", "-", "2", "~", "2", ".", "0", "0", "~", "X", "\"", ";">>,
          <<"\"", "1", "~", "N", "~", "6", "~", "9", "~", "-", "2", "~", "-", "2", ".", "1", "0", "\"">>}

Http(status, text) == [kind |-> "http", status |-> status, text |-> text]
Raised(kind) == [kind |-> kind, status |-> 0, text |-> <<>>]

\* what the quote endpoint may answer
QuoteReplies ==
    {Raised("timeout"), Raised("connerr")}
    \cup {Http(st, QuoteText(<<"2", ".", "3", "5">>)) : st \in {404, 500}}
    \cup {Http(200, t) : t \in QuoteTexts}

\* the answers used inside a whole query
PipeQuoteReplies ==
    {Raised("timeout"),
     Http(200, QuoteText(<<"2", ".", "0", "0">>)),
     Http(200, QuoteText(<<"-", "4", ".", "0", "0">>)),
     Http(200, <<"v", "=", "\"", "1", "~", "N", "~", "6", "\"", ";">>)}

\* the routable stock codes of the rows of the synthetic holdings pages
RowCodes == {Code603259, Code000858}

FundCode == <<"0", "0", "5", "8", "2", "7">>

\* the rows of three synthetic pages: the codes and weight texts repeat
\* with the given period, the name carries the row's rank
LayoutCodes(layout) ==
    IF layout = 1 THEN <<Code603259, Code000858, Code900901>>
    ELSE IF layout = 2 THEN <<Code000858, Code603259>>
    ELSE <<Code603259, Code900901>>

LayoutWeights(layout) ==
    IF layout = 1 THEN <<<<"1", "0", ".", "0", "0">>, <<"5", ".", "0", "0">>, <<"3", ".", "0", "0">>>>
    ELSE IF layout = 2 THEN <<<<"5", ".", "0", "0">>, <<"0", ".", "0", "0">>>>
    ELSE <<<<"8", ".", "5", "3", "3">>, <<"1", ".", "2", ".", "3">>>>

PageRow(layout, k) ==
    [stock_code |-> LayoutCodes(layout)[((k - 1) % Len(LayoutCodes(layout))) + 1],
     stock_name |-> <<"S">> \o NatStr(k),
     proportion |-> LayoutWeights(layout)[((k - 1) % Len(LayoutWeights(layout))) + 1]]

Page(kind, status, layout, n) ==
    [kind   |-> kind,
     status |-> status,
     name   |-> IF layout = 2 THEN <<>> ELSE <<"F", "u", "n", "d">>,
     date   |-> IF layout = 3 THEN <<>> ELSE <<"2", "0", "2", "4", "-", "1", "2", "-", "3", "1">>,
     rows   |-> [k \in 1..n |-> PageRow(layout, k)]]

RowCounts == (0..SmallN) \cup (MaxTopN..(MaxTopN + OverCap))

\* what the fund archive endpoint may answer
HoldingsReplies ==
    {Page("timeout", 0, 1, 0), Page("connerr", 0, 1, 0),
     Page("http", 404, 1, 0), Page("http", 500, 1, 2)}
    \cup {Page("http", 200, layout, n) : layout \in 1..3, n \in RowCounts}

\* top_n as a direct caller of get_fund_holdings may pass it
DirectTopNs == ((0 - SmallN)..SmallN) \cup ((MaxTopN - 1)..(MaxTopN + OverCap))

\* the numbers a query text may carry (-1: none)
QueryCounts == {-1, 0, 1, SmallN, MaxTopN + OverCap}

\* holdings handed to calculate_fund_estimate on its own: weights, among
\* them zero, with a change that parses, with the sentinel, with an
\* unparsable change, with nan, and with changes whose weighted average
\* lies midway between two hundredths
Weight10 == <<"1", "0", ".", "0", "0">>
Weight5 == <<"5", ".", "0", "0">>
Weight3 == <<"3", ".", "0", "0">>
Weight0 == <<"0", ".", "0", "0">>

Plus2 == <<"+", "2", ".", "0", "0", "%">>
Minus4 == <<"-", "4", ".", "0", "0", "%">>
Plus005 == <<"+", "0", ".", "0", "5", "%">>
Plus0 == <<"+", "0", ".", "0", "0", "%">>
NanPercent == <<"n", "a", "n", "%">>
Unparsable == <<"a", "b", "c">>

Holding(w, c) ==
    [stock_code |-> Code603259, stock_name |-> <<"S">>,
     proportion |-> FloatOf(w), change_percent |-> c]

EstimateHoldings ==
    {Holding(Weight10, Plus2), Holding(Weight5, Minus4),
     Holding(Weight3, Minus4), Holding(Weight3, Sentinel),
     Holding(Weight0, Plus2), Holding(Weight3, Unparsable),
     Holding(Weight5, NanPercent), Holding(Weight0, NanPercent),
     Holding(Weight10, Plus005), Holding(Weight10, Plus0)}

\* holdings that reach the edges of float division: besides weights that are
\* zero and changes that are skipped or nan, a holding whose weight is the
\* smallest positive float (2^-1074), falling.  Its products are lost in
\* any other non-zero product; the other non-zero products are +20 and -12
\* each, and cannot cancel in a list this short.
Tiny == <<"5", "e", "-", "3", "2", "4">>

TinyHolding == Holding(Tiny, Minus4)

WeightHoldings ==
    {Holding(Weight10, Plus2), Holding(Weight3, Minus4),
     Holding(Weight3, Sentinel), Holding(Weight3, Unparsable),
     Holding(Weight0, Plus2), Holding(Weight0, NanPercent),
     Holding(Weight5, NanPercent), Holding(Weight10, Plus0),
     TinyHolding}

----------------------------------------------------------------------------
(* State *)

VARIABLES
    pc,          \* where the query stands: "idle", "holdings_wait", "loop",
                 \* "quote_wait", "returned", "done"
    entry,       \* "main" (query_fund_holdings_main) or "direct"
    top_n_arg,   \* top_n as passed to get_fund_holdings
    top_n,       \* the local top_n after min(top_n, 20)
    reply,       \* the response to the holdings request
    quotes,      \* what the quote endpoint answers for each row code
    matches,     \* re.findall(pattern, text)
    idx,         \* the row of matches[:top_n] the loop is at
    holdings,    \* the local list holdings
    result,      \* what get_fund_holdings returned
    output,      \* what format_holdings_output returned
    net,         \* the requests issued, in order
    q_pc,        \* get_stock_price_change on its own: "idle", "wait", "done"
    stock_code,  \* its argument
    q_reply,     \* the response to its request
    q_change,    \* its return value
    q_net,       \* the requests it issued
    e_pc,        \* calculate_fund_estimate on its own: "idle", "done"
    e_holdings,  \* its argument
    e_estimate   \* its return value

pvars == <<pc, entry, top_n_arg, top_n, reply, quotes, matches, idx, holdings,
           result, output, net>>
qvars == <<q_pc, stock_code, q_reply, q_change, q_net>>
evars == <<e_pc, e_holdings, e_estimate>>
vars == <<pvars, qvars, evars>>

NoReply == Page("none", 0, 1, 0)
NoQuoteReply == Raised("none")

HoldingsRequest(code, n) == [kind |-> "holdings", arg |-> code, topline |-> n]
QuoteRequest(code) == [kind |-> "quote", arg |-> Symbol(code), topline |-> 0]

PipeIdle ==
    /\ pc = "idle"
    /\ entry = "none"
    /\ top_n_arg = 0
    /\ top_n = 0
    /\ reply = NoReply
    /\ matches = <<>>
    /\ idx = 0
    /\ holdings = <<>>
    /\ result = None
    /\ output = NoOutput
    /\ net = <<>>

QuoteIdle ==
    /\ q_pc = "idle"
    /\ stock_code = <<>>
    /\ q_reply = NoQuoteReply
    /\ q_change = <<>>
    /\ q_net = <<>>

EstimateIdle ==
    /\ e_pc = "idle"
    /\ e_holdings = <<>>
    /\ e_estimate = <<>>

----------------------------------------------------------------------------
(* A query: query_fund_holdings_main, or get_fund_holdings called directly *)

\* get_fund_holdings up to requests.get: the cap, then the one request
Call_Twice(n) ==
    /\ top_n_arg' = n
    /\ top_n' = Cap(n)
    /\ net' = net \o <<HoldingsRequest(FundCode, Cap(n)),
                       HoldingsRequest(FundCode, Cap(n))>>
    /\ pc' = "holdings_wait"
    /\ UNCHANGED <<reply, quotes, matches, idx, holdings, result, output>>

Call(n) ==
    /\ top_n_arg' = n
    /\ top_n' = Cap(n)
    /\ net' = Append(net, HoldingsRequest(FundCode, Cap(n)))
    /\ pc' = "holdings_wait"
    /\ UNCHANGED <<reply, quotes, matches, idx, holdings, result, output>>

\* query_fund_holdings_main with a query that names a fund code
query_fund_holdings_main ==
    /\ pc = "idle"
    /\ \E zh \in QueryCounts, en \in QueryCounts :
           /\ entry' = "main"
           /\ Call(ExtractTopN(zh, en))
    /\ UNCHANGED <<qvars, evars>>

\* query_fund_holdings_main with a query that names none: the usage text
query_without_code ==
    /\ pc = "idle"
    /\ entry' = "main"
    /\ output' = UsageOutput
    /\ pc' = "done"
    /\ UNCHANGED <<top_n_arg, top_n, reply, quotes, matches, idx, holdings,
                   result, net, qvars, evars>>

\* get_fund_holdings(fund_code, top_n) called by any other caller
get_fund_holdings_direct ==
    /\ pc = "idle"
    /\ \E n \in DirectTopNs :
           /\ entry' = "direct"
           /\ Call(n)
    /\ UNCHANGED <<qvars, evars>>

Kept == Slice(matches, top_n)

\* "return None" or the final "return {...}" of get_fund_holdings
ReturnNone ==
    /\ result' = None
    /\ pc' = "returned"

\* requests.get for the holdings page returns or raises; the status check,
\* the extraction and the slice
holdings_reply ==
    /\ pc = "holdings_wait"
    /\ \E r \in HoldingsReplies :
           /\ reply' = r
           /\ IF ~Fetched(r)
              THEN /\ ReturnNone
                   /\ UNCHANGED <<matches, idx>>
              ELSE /\ matches' = r.rows
                   /\ IF Slice(r.rows, top_n) = <<>>
                      THEN /\ ReturnNone
                           /\ UNCHANGED idx
                      ELSE /\ idx' = 1
                           /\ pc' = "loop"
                           /\ UNCHANGED result
    /\ UNCHANGED <<entry, top_n_arg, top_n, quotes, holdings, output, net,
                   qvars, evars>>

\* the rest of one pass of the loop once change_percent is known:
\* float(proportion) (a ValueError ends in the outer "return None"), the
\* append, and the return after the last row
AfterQuote(change) ==
    LET row == Kept[idx] IN
    IF ~ParseFloat(row.proportion).ok
    THEN /\ ReturnNone
         /\ UNCHANGED <<holdings, idx>>
    ELSE /\ holdings' = AddHolding(holdings, row, change)
         /\ IF idx = Len(Kept)
            THEN /\ result' = Report(reply, FundCode,
                                     AddHolding(holdings, row, change))
                 /\ pc' = "returned"
                 /\ UNCHANGED idx
            ELSE /\ idx' = idx + 1
                 /\ pc' = "loop"
                 /\ UNCHANGED result

\* get_stock_price_change for the row at hand, up to its request; a code
\* with no market prefix returns "--" at once
quote_call ==
    /\ pc = "loop"
    /\ LET row == Kept[idx] IN
       IF MarketPrefix(row.stock_code) = "none"
       THEN /\ AfterQuote(Sentinel)
            /\ UNCHANGED net
       ELSE /\ net' = Append(net, QuoteRequest(row.stock_code))
            /\ pc' = "quote_wait"
            /\ UNCHANGED <<holdings, idx, result>>
    /\ UNCHANGED <<entry, top_n_arg, top_n, reply, quotes, matches, output,
                   qvars, evars>>

\* the quote request returns or raises
quote_reply ==
    /\ pc = "quote_wait"
    /\ AfterQuote(ParseQuote(quotes[Kept[idx].stock_code]))
    /\ UNCHANGED <<entry, top_n_arg, top_n, reply, quotes, matches, output,
                   net, qvars, evars>>

\* format_holdings_output(result)
format_output ==
    /\ pc = "returned"
    /\ output' = format_holdings_output(result)
    /\ pc' = "done"
    /\ UNCHANGED <<entry, top_n_arg, top_n, reply, quotes, matches, idx,
                   holdings, result, net, qvars, evars>>

Init ==
    /\ PipeIdle
    /\ quotes \in [RowCodes -> PipeQuoteReplies]
    /\ QuoteIdle
    /\ EstimateIdle

Next ==
    \/ query_fund_holdings_main
    \/ query_without_code
    \/ get_fund_holdings_direct
    \/ holdings_reply
    \/ quote_call
    \/ quote_reply
    \/ format_output

Spec == Init /\ [][Next]_vars

----------------------------------------------------------------------------
(* get_stock_price_change on its own *)

get_stock_price_change_call ==
    /\ q_pc = "idle"
    /\ \E code \in StockCodes :
           /\ stock_code' = code
           /\ IF MarketPrefix(code) = "none"
              THEN /\ q_change' = Sentinel
                   /\ q_pc' = "done"
                   /\ UNCHANGED q_net
              ELSE /\ q_net' = Append(q_net, QuoteRequest(code))
                   /\ q_pc' = "wait"
                   /\ UNCHANGED q_change
    /\ UNCHANGED <<q_reply, pvars, evars>>

get_stock_price_change_reply ==
    /\ q_pc = "wait"
    /\ \E r \in QuoteReplies :
           /\ q_reply' = r
           /\ q_change' = ParseQuote(r)
    /\ q_pc' = "done"
    /\ UNCHANGED <<stock_code, q_net, pvars, evars>>

InitQuote ==
    /\ PipeIdle
    /\ quotes = [c \in RowCodes |-> Raised("timeout")]
    /\ QuoteIdle
    /\ EstimateIdle

NextQuote ==
    \/ get_stock_price_change_call
    \/ get_stock_price_change_reply

SpecQuote == InitQuote /\ [][NextQuote]_vars

----------------------------------------------------------------------------
(* calculate_fund_estimate on its own *)

\* the caller builds the list
estimate_input ==
    /\ e_pc = "idle"
    /\ Len(e_holdings) < MaxHoldings
    /\ \E h \in EstimateHoldings : e_holdings' = Append(e_holdings, h)
    /\ UNCHANGED <<e_pc, e_estimate, pvars, qvars>>

estimate_call ==
    /\ e_pc = "idle"
    /\ e_estimate' = calculate_fund_estimate(e_holdings)
    /\ e_pc' = "done"
    /\ UNCHANGED <<e_holdings, pvars, qvars>>

InitEstimate == InitQuote

NextEstimate ==
    \/ estimate_input
    \/ estimate_call

SpecEstimate == InitEstimate /\ [][NextEstimate]_vars

\* calculate_fund_estimate on lists that reach the edges of float division
weight_input ==
    /\ e_pc = "idle"
    /\ Len(e_holdings) < MaxHoldings
    /\ \E h \in WeightHoldings : e_holdings' = Append(e_holdings, h)
    /\ UNCHANGED <<e_pc, e_estimate, pvars, qvars>>

NextWeights ==
    \/ weight_input
    \/ estimate_call

SpecWeights == InitEstimate /\ [][NextWeights]_vars

----------------------------------------------------------------------------
(* Properties *)

Returned == pc \in {"returned", "done"}

Clamp(n) == IF n < 1 THEN 1 ELSE IF n > 20 THEN 20 ELSE n

FirstCharIn(code, chars) == Len(code) >= 1 /\ code[1] \in chars

\* a signed percentage with two decimals, such as +2.35% or -1.23%
SignedPercent(s) ==
    /\ Len(s) >= 6
    /\ s[1] \in {"+", "-"}
    /\ s[Len(s)] = "%"
    /\ s[Len(s) - 3] = "."
    /\ \A k \in 2..(Len(s) - 1) : k # Len(s) - 3 => IsDigit(s[k])

AdvisoryOutput ==
    [kind |-> "advisory", text |-> Advisory, name |-> <<>>, code |-> <<>>,
     report_date |-> <<>>, estimate |-> <<>>, table |-> <<>>, shown |-> 0]

\* C1: for every top_n passed to get_fund_holdings the count used, as the
\* topline parameter of the holdings request and as the number of matched
\* rows kept, is clamp(top_n, 1, 20).
C1_CountIsClamp ==
    Len(net) >= 1 =>
        /\ net[1].topline = Clamp(top_n_arg)
        /\ (reply.kind = "http" /\ reply.status = 200) =>
               Len(Kept) = Min(Clamp(top_n_arg), Len(matches))

\* C2 as stated: a returned report holds at most top_n holdings and at most
\* 20, for any integer top_n.
C2_Original ==
    (Returned /\ ~result.none) =>
        /\ Len(result.holdings) <= top_n_arg
        /\ Len(result.holdings) <= 20

\* C2 as amended: a returned report holds at least one and at most as many
\* holdings as the page has rows; at most top_n and at most 20 of them when
\* top_n >= 1; and for top_n < 1 a report is returned only for a negative
\* top_n and then holds all rows but the last -top_n.
C2_LengthBound ==
    (Returned /\ ~result.none) =>
        /\ Len(result.holdings) >= 1
        /\ Len(result.holdings) <= Len(reply.rows)
        /\ top_n_arg >= 1 => /\ Len(result.holdings) <= top_n_arg
                             /\ Len(result.holdings) <= 20
        /\ top_n_arg < 1 => /\ top_n_arg < 0
                            /\ Len(result.holdings) = Len(reply.rows) + top_n_arg

C2_Witness ==
    /\ Returned
    /\ ~result.none
    /\ top_n_arg > 20
    /\ Len(reply.rows) > 20
    /\ Len(result.holdings) = 20

HoldingsFailure ==
    \/ reply.kind \in {"timeout", "connerr"}
    \/ reply.kind = "http" /\ reply.status # 200
    \/ reply.kind = "http" /\ reply.status = 200 /\ reply.rows = <<>>

\* C3: a non-200 status, a timeout, a connection error or a 200 page with no
\* holding row each make get_fund_holdings return None, and
\* format_holdings_output of it is the one fixed advisory text.
C3_FailureIsUnavailable ==
    (Returned /\ HoldingsFailure) =>
        /\ result = None
        /\ holdings = <<>>
        /\ pc = "done" => output = AdvisoryOutput

C3_Witness ==
    /\ pc = "done"
    /\ reply.kind = "http"
    /\ reply.status = 500
    /\ reply.rows # <<>>
    /\ output.text = Advisory

\* C4: a stock code whose first character is not 6, 0 or 3 (the empty code
\* included) returns "--" with no request issued; a code beginning with 6
\* is requested as s_sh<code>, one beginning with 0 or 3 as s_sz<code>.
C4_Routing ==
    q_pc # "idle" =>
        /\ ~FirstCharIn(stock_code, {"6", "0", "3"}) =>
               /\ q_pc = "done"
               /\ q_change = Sentinel
               /\ q_net = <<>>
        /\ FirstCharIn(stock_code, {"6"}) =>
               /\ Len(q_net) = 1
               /\ q_net[1].arg = <<"s", "_", "s", "h">> \o stock_code
        /\ FirstCharIn(stock_code, {"0", "3"}) =>
               /\ Len(q_net) = 1
               /\ q_net[1].arg = <<"s", "_", "s", "z">> \o stock_code

C4_Witness ==
    /\ q_pc = "done"
    /\ stock_code = <<>>
    /\ q_change = Sentinel
    /\ q_net = <<>>

\* C5: get_stock_price_change returns either "--" or field index 5 as a
\* signed percentage with two decimals (a leading + when non-negative, a -
\* when negative); the record 1~N~6~9~-2~-2.10~X gives -2.10%.
C5_SentinelOrSigned ==
    q_pc = "done" =>
        /\ q_change = Sentinel \/ SignedPercent(q_change)
        /\ q_reply = Http(200, QuoteText(<<"-", "2", ".", "1", "0">>)) =>
               q_change = <<"-", "2", ".", "1", "0", "%">>

\* the changes of EstimateHoldings and WeightHoldings that carry price data, and their values
\* in hundredths of a percent
UsableChange(c) == c \in {Plus2, Minus4, Plus005, Plus0, NanPercent}
ChangeValue(c) ==
    IF c = Plus2 THEN 200
    ELSE IF c = Minus4 THEN 0 - 400
    ELSE IF c = Plus005 THEN 5
    ELSE 0

UsableIdx(hs) == {k \in 1..Len(hs) : UsableChange(hs[k].change_percent)}

\* a proportion of EstimateHoldings, or of WeightHoldings other than the
\* tiny one: a whole number of percent below Base,
\* in hundredths of a percent
Hundredths(x) == IF x.mant = <<>> THEN 0 ELSE 100 * x.mant[1] * (2 ^ x.exp)

\* the hundredths a signed percentage shows, without its sign
Shown(s) == DigitsVal(Remove(SubSeq(s, 2, Len(s) - 1), "."))

Abs(n) == IF n < 0 THEN 0 - n ELSE n

RECURSIVE SumWeight(_, _)
SumWeight(S, hs) ==
    IF S = {} THEN 0
    ELSE LET k == CHOOSE x \in S : TRUE
         IN  Hundredths(hs[k].proportion) + SumWeight(S \ {k}, hs)

RECURSIVE SumWeighted(_, _)
SumWeighted(S, hs) ==
    IF S = {} THEN 0
    ELSE LET k == CHOOSE x \in S : TRUE
         IN  Hundredths(hs[k].proportion) * ChangeValue(hs[k].change_percent)
             + SumWeighted(S \ {k}, hs)

ExampleHoldings ==
    <<Holding(Weight10, Plus2), Holding(Weight5, Minus4),
      Holding(Weight3, Sentinel)>>

\* C6: when the holdings with usable price data carry weight, the estimate
\* is (sum of proportion x change) / (sum of proportion) over those holdings
\* alone, to the nearest hundredth, with a leading + when non-negative; a
\* skipped holding adds to neither sum; the example gives +0.00%.
C6_WeightedAverage ==
    e_pc = "done" =>
        LET U == UsableIdx(e_holdings)
            T == SumWeight(U, e_holdings)
            W == SumWeighted(U, e_holdings)
        IN  /\ T > 0 =>
                IF \E k \in U : e_holdings[k].change_percent = NanPercent
                THEN e_estimate = NanPercent
                ELSE /\ SignedPercent(e_estimate)
                     /\ StartsWith(e_estimate, "+") <=> W >= 0
                     /\ 2 * Abs(Shown(e_estimate) * T - Abs(W)) <= T
            /\ e_holdings = ExampleHoldings => e_estimate = <<"+", "0", ".", "0", "0", "%">>

C6_Witness ==
    /\ e_pc = "done"
    /\ e_holdings = ExampleHoldings
    /\ e_estimate = <<"+", "0", ".", "0", "0", "%">>

\* the usable holdings that carry the smallest positive float, and the others
TinyIdx(hs) == {k \in UsableIdx(hs) : hs[k] = TinyHolding}

OtherIdx(hs) == UsableIdx(hs) \ TinyIdx(hs)

\* the quotient is a negative zero: the other products are all zero, so that
\* weighted_change is -4 * 2^-1074 for each tiny holding, and total_weight,
\* the weight of the others, is at least twice as far from zero in percent
\* (a quotient of 2^-1075 rounds to even, which is zero)
Underflows(hs) ==
    /\ TinyIdx(hs) # {}
    /\ \A k \in OtherIdx(hs) :
           Hundredths(hs[k].proportion) * ChangeValue(hs[k].change_percent) = 0
    /\ SumWeight(OtherIdx(hs), hs) >= 800 * Cardinality(TinyIdx(hs))

NegativeZeroPercent == <<"+", "-", "0", ".", "0", "0", "%">>

\* what the quote endpoint's answer for that code parses to
OwnChange(code) ==
    IF FirstCharIn(code, {"6", "0", "3"}) THEN ParseQuote(quotes[code])
    ELSE Sentinel

\* C8: the holdings, while they are built and in the report, are the first
\* rows of the page in the page's order, each with the change fetched for
\* its own stock code; the table has one row per holding, in that order,
\* ranked 1, 2, ..., n.
C8_OrderPreserved ==
    /\ \A k \in 1..Len(holdings) :
           /\ k <= Len(reply.rows)
           /\ holdings[k].stock_code = reply.rows[k].stock_code
           /\ holdings[k].stock_name = reply.rows[k].stock_name
    /\ \A code \in {reply.rows[k].stock_code : k \in 1..Len(holdings)} :
           LET own == OwnChange(code) IN
           \A k \in 1..Len(holdings) :
               reply.rows[k].stock_code = code =>
                   holdings[k].change_percent = own
    /\ (Returned /\ ~result.none) => result.holdings = holdings
    /\ (pc = "done" /\ ~result.none) =>
           /\ Len(output.table) = Len(holdings)
           /\ output.shown = Len(holdings)
           /\ \A k \in 1..Len(holdings) :
                  /\ output.table[k][1] = k
                  /\ output.table[k][2] = reply.rows[k].stock_code
                  /\ output.table[k][3] = reply.rows[k].stock_name
                  /\ output.table[k][5] = holdings[k].change_percent

C8_Witness ==
    /\ pc = "done"
    /\ Len(output.table) = 3
    /\ output.table[1][5] = Sentinel
    /\ output.table[2][5] = Minus4
    /\ output.table[3][5] = Sentinel
    /\ output.table[2][4] = <<"5", ".", "0", "0">>

\* the requests the loop has issued: one per processed row whose code has
\* a market, in rank order
RECURSIVE QuoteLog(_, _)
QuoteLog(rows, n) ==
    IF n = 0 THEN <<>>
    ELSE QuoteLog(rows, n - 1)
         \o (IF FirstCharIn(rows[n].stock_code, {"6"})
             THEN <<[kind |-> "quote", topline |-> 0,
                     arg |-> <<"s", "_", "s", "h">> \o rows[n].stock_code]>>
             ELSE IF FirstCharIn(rows[n].stock_code, {"0", "3"})
             THEN <<[kind |-> "quote", topline |-> 0,
                     arg |-> <<"s", "_", "s", "z">> \o rows[n].stock_code]>>
             ELSE <<>>)

\* C9 as stated: a query that returns a report of k holdings has issued
\* exactly 1 + k requests, k <= 20, the holdings request first and once; a
\* query whose holdings request fails has issued exactly 1.
C9_Original ==
    /\ (Returned /\ ~result.none) =>
           /\ Len(net) = 1 + Len(result.holdings)
           /\ Len(result.holdings) <= 20
           /\ net[1].kind = "holdings"
           /\ \A k \in 2..Len(net) : net[k].kind = "quote"
    /\ (Returned /\ HoldingsFailure) => Len(net) = 1

\* C9 as amended: the holdings request is issued once, first, and never
\* again; after it come the quote requests, one for each row processed so
\* far whose code begins with 6, 0 or 3, in rank order, and none for the
\* other rows; so a query that returns k holdings has issued 1 + r
\* requests, r <= k the number of those holdings with such a code, with
\* k <= 20 when top_n >= 0; a query whose holdings request fails has issued
\* exactly 1.
C9_RequestOrder ==
    /\ pc \in {"holdings_wait"} => Len(net) = 1
    /\ Len(net) >= 1 =>
           /\ net[1] = [kind |-> "holdings", arg |-> FundCode,
                        topline |-> Min(top_n_arg, 20)]
           /\ \A k \in 2..Len(net) : net[k].kind = "quote"
    /\ pc = "loop" => SubSeq(net, 2, Len(net)) = QuoteLog(reply.rows, idx - 1)
    /\ pc = "quote_wait" => SubSeq(net, 2, Len(net)) = QuoteLog(reply.rows, idx)
    /\ (Returned /\ ~result.none) =>
           /\ SubSeq(net, 2, Len(net))
                  = QuoteLog(reply.rows, Len(result.holdings))
           /\ Len(net) <= 1 + Len(result.holdings)
           /\ top_n_arg >= 0 => Len(result.holdings) <= 20
    /\ (Returned /\ HoldingsFailure) => Len(net) = 1

C9_Witness ==
    /\ Returned
    /\ ~result.none
    /\ Len(result.holdings) = 3
    /\ Len(net) = 3
    /\ net[2].arg = <<"s", "_", "s", "h">> \o Code603259
    /\ net[3].arg = <<"s", "_", "s", "z">> \o Code000858

\* C10: once the holdings response has status 200 and at least one row is
\* matched, get_fund_holdings returns a report with every kept row,
\* whatever happens afterwards.
C10_ReportOnceMatched ==
    (Returned /\ reply.kind = "http" /\ reply.status = 200 /\ reply.rows # <<>>) =>
        /\ ~result.none
        /\ Len(result.holdings) = Min(Clamp(top_n_arg), Len(reply.rows))

====
